---- MODULE Spec2Model ----
(***************************************************************************)
(* Healing video generator: HealingVideoGenerator (video_generator.py) and *)
(* the Flask handler generate_video (app.py).                              *)
(*                                                                         *)
(* Three specifications share this module:                                 *)
(*   Spec         - concurrent render requests against one file system,    *)
(*                  one step per system call / external-encoder call;      *)
(*   SpecFrames   - one request walked statement by statement through the  *)
(*                  registry lookups, the frame loop and the writer loop;  *)
(*   SpecGradient - create_gradient_frame applied to the inputs the        *)
(*                  dispatcher can hand it.                                *)
(***************************************************************************)
EXTENDS Integers, Sequences, FiniteSets, TLC

(***************************************************************************)
(* Bounds of the model.                                                    *)
(***************************************************************************)
NumRenders == 2
MaxPaths == 4
MaxFaults == 1
MaxSeqDuration == 2
MaxGradDuration == 2

(***************************************************************************)
(* HealingVideoGenerator.__init__                                          *)
(***************************************************************************)
height == 720
fps == 30

color_themes ==
  [ chakra |-> << <<255, 0, 0>>, <<255, 165, 0>>, <<255, 255, 0>>, <<0, 255, 0>>,
                  <<0, 191, 255>>, <<75, 0, 130>>, <<238, 130, 238>> >>,
    ocean_waves |-> << <<0, 119, 190>>, <<0, 180, 216>>, <<144, 224, 239>>,
                       <<173, 216, 230>>, <<240, 248, 255>> >>,
    forest_meditation |-> << <<34, 139, 34>>, <<107, 142, 35>>, <<154, 205, 50>>,
                             <<144, 238, 144>>, <<240, 255, 240>> >>,
    sacred_geometry |-> << <<138, 43, 226>>, <<147, 112, 219>>, <<221, 160, 221>>,
                           <<255, 182, 193>>, <<255, 240, 245>> >>,
    crystal_healing |-> << <<230, 230, 250>>, <<221, 160, 221>>, <<255, 192, 203>>,
                           <<255, 255, 224>>, <<240, 255, 255>> >>,
    sunset_peace |-> << <<255, 94, 77>>, <<255, 154, 0>>, <<255, 206, 84>>,
                        <<255, 238, 173>>, <<255, 248, 220>> >>,
    northern_lights |-> << <<0, 255, 127>>, <<64, 224, 208>>, <<138, 43, 226>>,
                           <<186, 85, 211>>, <<221, 160, 221>> >>,
    mandala_flow |-> << <<255, 215, 0>>, <<255, 140, 0>>, <<220, 20, 60>>,
                        <<128, 0, 128>>, <<75, 0, 130>> >> ]

frequencies ==
  [ f396hz |-> 396, f417hz |-> 417, f528hz |-> 528, f639hz |-> 639,
    f741hz |-> 741, f852hz |-> 852, f963hz |-> 963 ]

\* The catalog keys are '396hz' ... '963hz'; a record field cannot start with a
\* digit, so the key of tone name n is "f" \o n.
ToneKey(frequency_name) == "f" \o frequency_name

\* dict.get(key, default)
dict_get(d, key, default) == IF key \in DOMAIN d THEN d[key] ELSE default

\* generate_visual_frames: colors = self.color_themes.get(theme, self.color_themes['chakra'])
\* colors is a reference to one of the lists of the registry; the reference is
\* the key of that list (PaletteKey), the list itself is PaletteFor.
PaletteKey(theme) == dict_get([k \in DOMAIN color_themes |-> k], theme, "chakra")
PaletteFor(theme) == color_themes[PaletteKey(theme)]

\* add_healing_audio: frequency = self.frequencies.get(frequency_name, 432)
HzForA440(frequency_name) == dict_get(frequencies, ToneKey(frequency_name), 440)
HzFor(frequency_name) == dict_get(frequencies, ToneKey(frequency_name), 432)

\* create_healing_frame: the if/elif chain choosing the synthesizer
SynthFor(theme) ==
  IF theme = "chakra" THEN "create_chakra_frame"
  ELSE IF theme = "sacred_geometry" THEN "create_sacred_geometry_frame"
  ELSE IF theme = "ocean_waves" THEN "create_wave_frame"
  ELSE IF theme = "mandala_flow" THEN "create_mandala_frame"
  ELSE "create_gradient_frame"


(***************************************************************************)
(* Frames.  A frame is represented by the synthesizer call that produced   *)
(* it (colors: the key of the palette list passed); the per-pixel          *)
(* trigonometry of the synthesizers is not evaluated.                      *)
(***************************************************************************)
\* the value standing for "this call raised ZeroDivisionError"
ZeroDivisionError ==
  [synth |-> "ZeroDivisionError", frame_num |-> 0, total_frames |-> 0, colors |-> ""]

\* range(n)
range(n) == 0 .. (n - 1)

\* create_chakra_frame: color_cycle_length = total_frames // len(colors), then
\* frame_num // color_cycle_length, which raises when the length is zero.
color_cycle_length(total_frames, colors) == total_frames \div Len(color_themes[colors])

create_chakra_frame(frame_num, total_frames, colors) ==
  IF color_cycle_length(total_frames, colors) = 0
  THEN ZeroDivisionError
  ELSE [synth |-> "create_chakra_frame", frame_num |-> frame_num,
        total_frames |-> total_frames, colors |-> colors]

\* create_healing_frame: dispatch on the theme name
create_healing_frame(frame_num, total_frames, colors, theme) ==
  IF SynthFor(theme) = "create_chakra_frame"
  THEN create_chakra_frame(frame_num, total_frames, colors)
  ELSE [synth |-> SynthFor(theme), frame_num |-> frame_num,
        total_frames |-> total_frames, colors |-> colors]

\* generate_visual_frames: total_frames = duration * self.fps
TotalFramesShort(duration) == duration * fps - 1
TotalFrames(duration) == duration * fps

\* generate_visual_frames: the modulus of the progress indicator
ProgressEveryPercent(total_frames) == total_frames \div 100
ProgressEvery(total_frames) == total_frames \div 10

\* generate_visual_frames run to completion: the list of frames, or the
\* arithmetic fault raised inside the loop (raised = TRUE).
generate_visual_frames(theme, duration) ==
  LET total_frames == TotalFrames(duration)
      colors == PaletteKey(theme)
      one(n) == create_healing_frame(n, total_frames, colors, theme)
  IN IF \E n \in range(total_frames) :
          one(n) = ZeroDivisionError \/ ProgressEvery(total_frames) = 0
     THEN [raised |-> TRUE, frames |-> <<>>]
     ELSE [raised |-> FALSE,
           frames |-> [i \in 1 .. Cardinality(range(total_frames)) |-> one(i - 1)]]

(***************************************************************************)
(* The file system shared by the render requests.                          *)
(***************************************************************************)
Renders == 1 .. NumRenders
Paths == 1 .. MaxPaths

NoFile == [owner |-> 0, kind |-> "none", frames |-> <<>>, hz |-> 0, secs |-> 0]

\* NamedTemporaryFile(delete=False) followed by close(): an empty file
EmptyFile(r) == [owner |-> r, kind |-> "empty", frames |-> <<>>, hz |-> 0, secs |-> 0]

\* what create_video_from_frames leaves at output_path after out.release()
VideoFile(r, fr) == [owner |-> r, kind |-> "video", frames |-> fr, hz |-> 0, secs |-> 0]

\* the frame indices at which the writer loop is made to raise: the first
\* and the last write
FaultPoints(fr) == {0, Len(fr) - 1} \ {-1}

\* what is at output_path when a write raised before frame index k was written
PartialVideo(r, fr, k) ==
  [owner |-> r, kind |-> "partial_video", frames |-> SubSeq(fr, 1, k), hz |-> 0, secs |-> 0]

\* ffmpeg -f lavfi -i sine=frequency=F:duration=D -ar 44100 -ac 1 <wav>
AudioFile(r, frequency, duration) ==
  [owner |-> r, kind |-> "audio", frames |-> <<>>, hz |-> frequency, secs |-> duration]

\* ffmpeg -i <video> -i <wav> -c:v copy -c:a aac -shortest <out>
MuxedFile(r, video, sound) ==
  [owner |-> r, kind |-> "muxed", frames |-> video.frames, hz |-> sound.hz,
   secs |-> sound.secs]

\* an encoder run that exited non-zero after it had opened its output
PartialOutput(r, k) == [owner |-> r, kind |-> k, frames |-> <<>>, hz |-> 0, secs |-> 0]

Exists(fsys, p) == fsys[p] # NoFile

\* tempfile.NamedTemporaryFile: a random name that no existing file has
\* (O_EXCL); a name whose file is gone may be handed out again.  A request
\* forgets a name when it frees it (the variable holding it is dead from
\* there on), so no part of the state refers to a free name: the free names
\* are interchangeable and the least of them stands for all of them.
AllocTemp(fsys) ==
  {p \in Paths : ~Exists(fsys, p) /\ \A q \in Paths : ~Exists(fsys, q) => p <= q}

\* add_healing_audio: temp_audio = tempfile.NamedTemporaryFile(suffix='.wav', ...)
AudioPathChoicesShared(fsys) == {1}
AudioPathChoices(fsys) == AllocTemp(fsys)

\* add_healing_audio: the last argument of the mux command is temp_final.name
MuxOutputPathInPlace(video_path, temp_final) == video_path
MuxOutputPath(video_path, temp_final) == temp_final

\* os.replace(src, dst)
os_replace_noop(fsys, src, dst) == [fsys EXCEPT ![src] = NoFile]
os_replace(fsys, src, dst) == [fsys EXCEPT ![dst] = fsys[src], ![src] = NoFile]

\* os.unlink(path)
os_unlink(fsys, p) == [fsys EXCEPT ![p] = NoFile]

\* add_healing_audio: "# Cleanup" os.unlink(temp_audio.name)
CleanupAudioSkipped(fsys, p) == fsys
CleanupAudio(fsys, p) == os_unlink(fsys, p)

\* create_healing_video, except branch: if os.path.exists(...): os.unlink(...)
ExceptCleanupSkipped(fsys, p, seen) == fsys
ExceptCleanup(fsys, p, seen) == IF seen THEN os_unlink(fsys, p) ELSE fsys

(***************************************************************************)
(* State.                                                                  *)
(*   fs            the temporary directory: path -> file                   *)
(*   pc            where each request stands                               *)
(*   req           theme, frequency name and duration of each request      *)
(*   temp_video, temp_audio, temp_final                                    *)
(*                 the paths each request holds (0: none, or freed)        *)
(*   frames        the list generate_visual_frames returned                *)
(*   seen          result of os.path.exists in the except branch           *)
(*   done, calls, fault                                                    *)
(*                 record of the run: stages completed, subprocess.run     *)
(*                 invocations, and the step that raised                   *)
(*   faults        how many steps have raised so far, over all requests    *)
(*   sq            the single request of SpecFrames                        *)
(*   gr            the synthesizer call of SpecGradient                    *)
(***************************************************************************)
VARIABLES fs, pc, req, temp_video, temp_audio, temp_final, frames, seen,
          done, calls, fault, faults, sq, gr

pipeline == <<fs, pc, req, temp_video, temp_audio, temp_final, frames, seen,
              done, calls, fault, faults>>
vars == <<fs, pc, req, temp_video, temp_audio, temp_final, frames, seen,
          done, calls, fault, faults, sq, gr>>

\* Requests the concurrent specification draws from: the defaults of app.py
\* (theme 'chakra', frequency '432hz') with a duration of one second.
\* The other themes, tones and durations are exercised by SpecFrames.
RequestThemes == {"chakra"}
RequestTones == {"432hz"}
RequestDurations == {1}

NoRequest == [theme |-> "", frequency |-> "", duration |-> 0]

PipelineInit ==
  /\ fs = [p \in Paths |-> NoFile]
  /\ pc = [r \in Renders |-> "idle"]
  /\ req = [r \in Renders |-> NoRequest]
  /\ temp_video = [r \in Renders |-> 0]
  /\ temp_audio = [r \in Renders |-> 0]
  /\ temp_final = [r \in Renders |-> 0]
  /\ frames = [r \in Renders |-> <<>>]
  /\ seen = [r \in Renders |-> FALSE]
  /\ done = [r \in Renders |-> <<>>]
  /\ calls = [r \in Renders |-> 0]
  /\ fault = [r \in Renders |-> "none"]
  /\ faults = 0

SqIdle == [pc |-> "idle", theme |-> "", frequency_name |-> "", duration |-> 0,
           total_frames |-> 0, colors |-> "", frame_num |-> 0, frames |-> <<>>,
           progress |-> <<>>, written |-> <<>>, frequency |-> 0]
GrIdle == [pc |-> "idle", theme |-> "", frame_num |-> 0, total_frames |-> 0,
           frame |-> <<>>]

Init == PipelineInit /\ sq = SqIdle /\ gr = GrIdle

\* an exception the environment causes inside the try block of
\* create_healing_video (memory, codec, encoder, file system); at most
\* MaxFaults steps are made to raise in one behaviour
Raise(r, step) ==
  /\ faults < MaxFaults
  /\ faults' = faults + 1
  /\ pc' = [pc EXCEPT ![r] = "except"]
  /\ fault' = [fault EXCEPT ![r] = step]

\* app.py generate_video calling create_healing_video, up to temp_video.close()
generate_video(r) ==
  /\ pc[r] = "idle"
  /\ \E theme \in RequestThemes, frequency \in RequestTones,
        duration \in RequestDurations, p \in AllocTemp(fs) :
       /\ req' = [req EXCEPT ![r] = [theme |-> theme, frequency |-> frequency,
                                     duration |-> duration]]
       /\ temp_video' = [temp_video EXCEPT ![r] = p]
       /\ fs' = [fs EXCEPT ![p] = EmptyFile(r)]
  /\ pc' = [pc EXCEPT ![r] = "frames"]
  /\ done' = [done EXCEPT ![r] = Append(@, "alloc")]
  /\ UNCHANGED <<faults, temp_audio, temp_final, frames, seen, calls, fault, sq, gr>>

\* frames = self.generate_visual_frames(theme, duration): the list, the
\* arithmetic fault of the loop, or MemoryError while the list grows
GenerateFrames(r) ==
  /\ pc[r] = "frames"
  /\ LET result == generate_visual_frames(req[r].theme, req[r].duration)
     IN IF result.raised
        THEN /\ pc' = [pc EXCEPT ![r] = "except"]
             /\ fault' = [fault EXCEPT ![r] = "frames"]
             /\ UNCHANGED <<frames, done, faults>>
        ELSE \/ /\ frames' = [frames EXCEPT ![r] = result.frames]
                /\ pc' = [pc EXCEPT ![r] = "encode"]
                /\ done' = [done EXCEPT ![r] = Append(@, "frames")]
                /\ UNCHANGED <<fault, faults>>
             \/ /\ Raise(r, "frames")
                /\ UNCHANGED <<frames, done>>
  /\ UNCHANGED <<fs, req, temp_video, temp_audio, temp_final, seen, calls, sq, gr>>

\* self.create_video_from_frames(frames, temp_video.name): every frame written
\* in list order and the writer released, or an exception at frame index k
CreateVideo(r) ==
  /\ pc[r] = "encode"
  /\ \/ /\ fs' = [fs EXCEPT ![temp_video[r]] = VideoFile(r, frames[r])]
        /\ pc' = [pc EXCEPT ![r] = "audio_alloc"]
        /\ done' = [done EXCEPT ![r] = Append(@, "video")]
        /\ UNCHANGED <<fault, faults>>
     \/ /\ \E k \in FaultPoints(frames[r]) :
             fs' = [fs EXCEPT ![temp_video[r]] = PartialVideo(r, frames[r], k)]
        /\ Raise(r, "video")
        /\ UNCHANGED done
  /\ UNCHANGED <<req, temp_video, temp_audio, temp_final, frames, seen, calls, sq, gr>>

\* add_healing_audio: temp_audio = NamedTemporaryFile(suffix='.wav'); close()
AllocAudio(r) ==
  /\ pc[r] = "audio_alloc"
  /\ \E p \in AudioPathChoices(fs) :
       /\ temp_audio' = [temp_audio EXCEPT ![r] = p]
       /\ fs' = [fs EXCEPT ![p] = EmptyFile(r)]
  /\ pc' = [pc EXCEPT ![r] = "tone"]
  /\ UNCHANGED <<faults, req, temp_video, temp_final, frames, seen, done, calls, fault, sq, gr>>

\* subprocess.run(<sine command>, check=True): exit 0 with the tone written,
\* or CalledProcessError with the .wav untouched or partly written
RunTone(r) ==
  /\ pc[r] = "tone"
  /\ calls' = [calls EXCEPT ![r] = @ + 1]
  /\ \/ /\ fs' = [fs EXCEPT ![temp_audio[r]] =
                    AudioFile(r, HzFor(req[r].frequency), req[r].duration)]
        /\ pc' = [pc EXCEPT ![r] = "final_alloc"]
        /\ UNCHANGED <<fault, faults>>
     \/ /\ \/ UNCHANGED fs
           \/ fs' = [fs EXCEPT ![temp_audio[r]] = PartialOutput(r, "partial_audio")]
        /\ Raise(r, "tone")
  /\ UNCHANGED <<req, temp_video, temp_audio, temp_final, frames, seen, done, sq, gr>>

\* temp_final = NamedTemporaryFile(suffix='.mp4'); close()
AllocFinal(r) ==
  /\ pc[r] = "final_alloc"
  /\ \E p \in AllocTemp(fs) :
       /\ temp_final' = [temp_final EXCEPT ![r] = p]
       /\ fs' = [fs EXCEPT ![p] = EmptyFile(r)]
  /\ pc' = [pc EXCEPT ![r] = "mux"]
  /\ UNCHANGED <<faults, req, temp_video, temp_audio, frames, seen, done, calls, fault, sq, gr>>

\* subprocess.run(<mux command>, check=True): the encoder reads video_path and
\* the .wav and writes its last argument; exit 0 needs both inputs readable
RunMux(r) ==
  /\ pc[r] = "mux"
  /\ calls' = [calls EXCEPT ![r] = @ + 1]
  /\ LET target == MuxOutputPath(temp_video[r], temp_final[r])
     IN \/ /\ fs[temp_video[r]].kind = "video"
           /\ fs[temp_audio[r]].kind = "audio"
           /\ fs' = [fs EXCEPT ![target] =
                       MuxedFile(r, fs[temp_video[r]], fs[temp_audio[r]])]
           /\ pc' = [pc EXCEPT ![r] = "replace"]
           /\ UNCHANGED <<fault, faults>>
        \/ /\ \/ UNCHANGED fs
              \/ fs' = [fs EXCEPT ![target] = PartialOutput(r, "partial_mux")]
           /\ Raise(r, "mux")
  /\ UNCHANGED <<req, temp_video, temp_audio, temp_final, frames, seen, done, sq, gr>>

\* os.replace(temp_final.name, video_path), or OSError with nothing moved
Replace(r) ==
  /\ pc[r] = "replace"
  /\ \/ /\ fs' = os_replace(fs, temp_final[r], temp_video[r])
        /\ temp_final' = [temp_final EXCEPT ![r] = 0]
        /\ pc' = [pc EXCEPT ![r] = "cleanup"]
        /\ UNCHANGED <<fault, faults>>
     \/ /\ UNCHANGED <<fs, temp_final>>
        /\ Raise(r, "replace")
  /\ UNCHANGED <<req, temp_video, temp_audio, frames, seen, done, calls, sq, gr>>

\* os.unlink(temp_audio.name), then back in create_healing_video:
\* return temp_video.name; or OSError with nothing removed
UnlinkAudioAndReturn(r) ==
  /\ pc[r] = "cleanup"
  /\ \/ /\ fs' = CleanupAudio(fs, temp_audio[r])
        /\ temp_audio' = [temp_audio EXCEPT ![r] = 0]
        /\ pc' = [pc EXCEPT ![r] = "returned"]
        /\ done' = [done EXCEPT ![r] = Append(@, "audio")]
        /\ UNCHANGED <<fault, faults>>
     \/ /\ UNCHANGED <<fs, done, temp_audio>>
        /\ Raise(r, "unlink")
  /\ UNCHANGED <<req, temp_video, temp_final, frames, seen, calls, sq, gr>>

\* except Exception: ... os.path.exists(temp_video.name)
ExceptExists(r) ==
  /\ pc[r] = "except"
  /\ seen' = [seen EXCEPT ![r] = Exists(fs, temp_video[r])]
  /\ pc' = [pc EXCEPT ![r] = "except_unlink"]
  /\ UNCHANGED <<faults, fs, req, temp_video, temp_audio, temp_final, frames, done, calls,
                 fault, sq, gr>>

\* ... os.unlink(temp_video.name) if it existed; raise (app.py answers 500)
ExceptUnlinkAndRaise(r) ==
  /\ pc[r] = "except_unlink"
  /\ fs' = ExceptCleanup(fs, temp_video[r], seen[r])
  /\ temp_video' = [temp_video EXCEPT ![r] = 0]
  /\ pc' = [pc EXCEPT ![r] = "failed"]
  /\ UNCHANGED <<faults, req, temp_audio, temp_final, frames, seen, done, calls,
                 fault, sq, gr>>

Next ==
  \E r \in Renders :
    \/ generate_video(r)
    \/ GenerateFrames(r)
    \/ CreateVideo(r)
    \/ AllocAudio(r)
    \/ RunTone(r)
    \/ AllocFinal(r)
    \/ RunMux(r)
    \/ Replace(r)
    \/ UnlinkAudioAndReturn(r)
    \/ ExceptExists(r)
    \/ ExceptUnlinkAndRaise(r)

Spec == Init /\ [][Next]_vars

(***************************************************************************)
(* SpecFrames: one request, statement by statement, with no fault other    *)
(* than the arithmetic ones of the code.                                   *)
(***************************************************************************)
RegisteredThemes == DOMAIN color_themes
AllThemes == RegisteredThemes \cup {"aurora"}
RegisteredTones == {"396hz", "417hz", "528hz", "639hz", "741hz", "852hz", "963hz"}
AllTones == RegisteredTones \cup {"432hz"}

\* cv2.cvtColor(frame, cv2.COLOR_RGB2BGR): the same picture, channels reversed
cvtColor(frame) == [bgr_of |-> frame]

\* create_healing_video(theme, frequency, duration) entering
\* generate_visual_frames: total_frames, colors, frames = []
SeqStart ==
  /\ sq.pc = "idle"
  /\ \E theme \in AllThemes, frequency_name \in AllTones,
        duration \in 0 .. MaxSeqDuration :
       sq' = [sq EXCEPT !.pc = "loop", !.theme = theme,
                        !.frequency_name = frequency_name, !.duration = duration,
                        !.total_frames = TotalFrames(duration),
                        !.colors = PaletteKey(theme), !.frame_num = 0]
  /\ UNCHANGED <<pipeline, gr>>

\* one iteration of "for frame_num in range(total_frames)"
SeqFrame ==
  /\ sq.pc = "loop"
  /\ sq.frame_num \in range(sq.total_frames)
  /\ LET frame == create_healing_frame(sq.frame_num, sq.total_frames, sq.colors, sq.theme)
         every == ProgressEvery(sq.total_frames)
     IN IF frame = ZeroDivisionError \/ every = 0
        THEN sq' = [sq EXCEPT !.pc = "raised"]
        ELSE sq' = [sq EXCEPT !.frames = Append(@, frame),
                              !.progress = IF sq.frame_num % every = 0
                                           THEN Append(@, sq.frame_num) ELSE @,
                              !.frame_num = @ + 1]
  /\ UNCHANGED <<pipeline, gr>>

\* range exhausted: return frames; create_video_from_frames opens the writer
SeqReturn ==
  /\ sq.pc = "loop"
  /\ sq.frame_num \notin range(sq.total_frames)
  /\ sq' = [sq EXCEPT !.pc = "write", !.frame_num = 0]
  /\ UNCHANGED <<pipeline, gr>>

\* one iteration of "for frame in frames": out.write(cvtColor(frame))
WriteFrame ==
  /\ sq.pc = "write"
  /\ sq.frame_num < Len(sq.frames)
  /\ sq' = [sq EXCEPT !.written = Append(@, cvtColor(sq.frames[sq.frame_num + 1])),
                      !.frame_num = @ + 1]
  /\ UNCHANGED <<pipeline, gr>>

\* out.release(); add_healing_audio looks the frequency up
ReleaseAndResolveTone ==
  /\ sq.pc = "write"
  /\ sq.frame_num >= Len(sq.frames)
  /\ sq' = [sq EXCEPT !.pc = "done", !.frequency = HzFor(sq.frequency_name)]
  /\ UNCHANGED <<pipeline, gr>>

NextFrames == SeqStart \/ SeqFrame \/ SeqReturn \/ WriteFrame \/ ReleaseAndResolveTone

SpecFrames == Init /\ [][NextFrames]_vars

(***************************************************************************)
(* SpecGradient: create_gradient_frame on the calls the dispatcher makes.  *)
(***************************************************************************)
\* Python evaluates current*(1 - y/height) + next*(y/height) in IEEE doubles
\* and truncates with int().  The exact value is a multiple of 1/height, so
\* the truncation differs from the exact floor only where the exact value is
\* an integer and the double falls just short of it.  For the channel pairs
\* of adjacent palette entries that happens exactly at these
\* <<current, next, y>>.
FloatShortfall ==
  { 
<<0, 75, 528>>, <<0, 165, 528>>, <<20, 0, 576>>, <<20, 0, 648>>, <<75, 255, 80>>,
    <<75, 255, 500>>, <<75, 255, 524>>, <<75, 255, 572>>, <<75, 255, 680>>,
    <<75, 255, 704>>, <<94, 154, 12>>, <<94, 154, 60>>, <<94, 154, 108>>,
    <<112, 160, 15>>, <<112, 160, 60>>, <<130, 0, 576>>, <<130, 0, 648>>,
    <<140, 20, 60>>, <<140, 20, 84>>, <<140, 20, 174>>, <<140, 20, 210>>,
    <<140, 20, 264>>, <<140, 20, 300>>, <<140, 20, 354>>, <<140, 20, 372>>,
    <<140, 20, 462>>, <<140, 20, 486>>, <<140, 20, 552>>, <<140, 20, 576>>,
    <<140, 20, 642>>, <<140, 20, 648>>, <<140, 20, 666>>, <<140, 20, 690>>,
    <<165, 255, 16>>, <<208, 226, 40>>, <<221, 203, 80>>, <<230, 221, 80>>,
    <<239, 230, 80>>, <<240, 0, 210>>, <<240, 0, 255>>, <<240, 0, 300>>,
    <<240, 0, 345>>, <<240, 0, 348>>, <<240, 0, 351>>, <<240, 0, 372>>,
    <<240, 0, 375>>, <<240, 0, 396>>, <<240, 0, 417>>, <<240, 0, 420>>,
    <<240, 0, 441>>, <<240, 0, 462>>, <<240, 0, 465>>, <<240, 0, 486>>,
    <<240, 0, 507>>, <<240, 0, 510>>, <<240, 0, 531>>, <<240, 0, 534>>,
    <<240, 0, 552>>, <<240, 0, 555>>, <<240, 0, 558>>, <<240, 0, 576>>,
    <<240, 0, 579>>, <<240, 0, 597>>, <<240, 0, 600>>, <<240, 0, 603>>,
    <<240, 0, 621>>, <<240, 0, 624>>, <<240, 0, 627>>, <<240, 0, 642>>,
    <<240, 0, 645>>, <<240, 0, 648>>, <<240, 0, 666>>, <<240, 0, 669>>,
    <<240, 0, 672>>, <<240, 0, 687>>, <<240, 0, 690>>, <<240, 0, 693>>,
    <<240, 0, 696>>, <<240, 0, 711>>, <<240, 0, 714>>, <<240, 0, 717>>,
    <<255, 0, 576>>, <<255, 0, 624>>, <<255, 0, 672>>, <<255, 255, 13>>,
    <<255, 255, 16>>, <<255, 255, 34>>, <<255, 255, 37>>, <<255, 255, 40>>,
    <<255, 255, 58>>, <<255, 255, 61>>, <<255, 255, 78>>, <<255, 255, 79>>,
    <<255, 255, 82>>, <<255, 255, 85>>, <<255, 255, 106>>, <<255, 255, 123>>,
    <<255, 255, 124>>, <<255, 255, 130>>, <<255, 255, 151>>, <<255, 255, 168>>,
    <<255, 255, 169>>, <<255, 255, 175>>, <<255, 255, 210>>, <<255, 255, 213>>,
    <<255, 255, 217>>, <<255, 255, 255>>, <<255, 255, 258>>, <<255, 255, 262>>,
    <<255, 255, 300>>, <<255, 255, 303>>, <<255, 255, 307>>, <<255, 255, 345>>,
    <<255, 255, 348>>, <<255, 255, 352>> }

\* int(current_color[i] * (1 - gradient_progress) + next_color[i] * gradient_progress)
BlendChannel(current, next, y) ==
  ((current * (height - y) + next * y) \div height)
    - (IF <<current, next, y>> \in FloatShortfall THEN 1 ELSE 0)

\* color_index = int(progress * len(colors)) % len(colors), progress = frame_num / total_frames
\* (the double product truncates to the exact floor for every call made here)
color_index(frame_num, total_frames, colors) ==
  ((frame_num * Len(colors)) \div total_frames) % Len(colors)

\* blend_progress = (progress * len(colors)) % 1, as the numerator over total_frames
blend_progress(frame_num, total_frames, colors) ==
  (frame_num * Len(colors)) % total_frames

\* create_gradient_frame: frame[y, :] = final_color, so a frame is its rows
create_gradient_frame(frame_num, total_frames, colors) ==
  LET current_color == colors[color_index(frame_num, total_frames, colors) + 1]
      next_color == colors[((color_index(frame_num, total_frames, colors) + 1)
                              % Len(colors)) + 1]
  IN [y \in range(height) |->
        [i \in 1 .. 3 |-> BlendChannel(current_color[i], next_color[i], y)]]

\* the themes create_healing_frame sends to create_gradient_frame
GradientThemes == {t \in AllThemes : SynthFor(t) = "create_gradient_frame"}

GradientCalls ==
  {[pc |-> "call", theme |-> t, frame_num |-> f, total_frames |-> TotalFrames(d),
    frame |-> <<>>] :
     t \in GradientThemes, d \in 1 .. MaxGradDuration,
     f \in range(TotalFrames(MaxGradDuration))}

InitGradient ==
  /\ PipelineInit
  /\ sq = SqIdle
  /\ gr \in {c \in GradientCalls : c.frame_num < c.total_frames}

GradientApply ==
  /\ gr.pc = "call"
  /\ gr' = [gr EXCEPT !.pc = "returned",
                      !.frame = create_gradient_frame(gr.frame_num, gr.total_frames,
                                                      PaletteFor(gr.theme))]
  /\ UNCHANGED <<pipeline, sq>>

NextGradient == GradientApply

SpecGradient == InitGradient /\ [][NextGradient]_vars

(***************************************************************************)
(* Properties of the concurrent pipeline (Spec).                           *)
(***************************************************************************)
InHandler(r) == pc[r] \in {"except", "except_unlink"}
Mine(r, p) == p # 0 /\ Exists(fs, p) /\ fs[p].owner = r

\* the mux of the frames the request generated with the tone it asked for
MuxOf(r) ==
  MuxedFile(r, VideoFile(r, frames[r]),
            AudioFile(r, HzFor(req[r].frequency), req[r].duration))

\* the file a request that ran alone would return, from its inputs only
OwnResult(r) ==
  MuxedFile(r, VideoFile(r, generate_visual_frames(req[r].theme, req[r].duration).frames),
            AudioFile(r, HzFor(req[r].frequency), req[r].duration))

\* C1: whichever step raised (frame generation, video encoding, either encoder
\* call, the replace, the audio unlink), the request ends in failure, never
\* with a returned path, and at the step that propagates the failure no file
\* exists at the output path allocated at the start.
C1_FailureRemovesOutput ==
  [][\A r \in Renders :
       /\ (pc'[r] = "failed" /\ pc[r] # "failed")
            => (fault[r] # "none" /\ ~Exists(fs', temp_video[r]))
       /\ (fault[r] # "none") => pc'[r] \in {"except", "except_unlink", "failed"}]_vars

C1_Witness ==
  \E r \in Renders : /\ pc[r] = "failed" /\ fault[r] = "mux" /\ seen[r]
                     /\ \A p \in Paths : fs[p].owner = r => fs[p].kind # "video"

\* C2: once the .wav path exists, however add_healing_audio ends (success,
\* failed tone synthesis, failed mux), the request's intermediate audio file
\* is gone.
C2_AudioAlwaysDeleted ==
  \A r \in Renders :
    (temp_audio[r] # 0 /\ (pc[r] = "returned" \/ fault[r] \in {"tone", "mux"}))
      => ~Mine(r, temp_audio[r])

\* C3: a non-zero encoder exit fails the stage at once (one invocation for a
\* failed tone synthesis, two for a failed mux, never more); when the stage
\* raises for that reason the output path still holds the video-only file of
\* the Video Assembler; and from the assembler's completion on the output path
\* holds the video-only file or the complete muxed output, nothing else.
C3_NoPartialPromotion ==
  \A r \in Renders :
    /\ calls[r] <= 2
    /\ fault[r] = "tone" => calls[r] = 1
    /\ fault[r] = "mux" => calls[r] = 2
    /\ (fault[r] \in {"tone", "mux"} /\ InHandler(r))
         => fs[temp_video[r]] = VideoFile(r, frames[r])
    /\ (fault[r] \in {"tone", "mux"} /\ Mine(r, temp_video[r]))
         => fs[temp_video[r]].kind # "muxed"
    /\ (pc[r] \in {"audio_alloc", "tone", "final_alloc", "mux", "replace", "cleanup",
                   "returned"})
         => (fs[temp_video[r]] = VideoFile(r, frames[r]) \/ fs[temp_video[r]] = MuxOf(r))

C3_Witness ==
  \E r \in Renders : /\ fault[r] = "mux" /\ InHandler(r)
                     /\ fs[temp_final[r]].kind = "partial_mux"
                     /\ fs[temp_video[r]].kind = "video"

\* C4: the stages of a request complete in the order allocation, frames,
\* video, audio; each stage runs only when exactly the stages before it have
\* completed; a path is returned only after all of them, and the returned path
\* then holds (and keeps holding) the muxed output of the request.
C4_LinearControl ==
  \A r \in Renders :
    /\ pc[r] = "idle" => done[r] = <<>>
    /\ pc[r] = "frames" => done[r] = <<"alloc">>
    /\ pc[r] = "encode" => done[r] = <<"alloc", "frames">>
    /\ pc[r] \in {"audio_alloc", "tone", "final_alloc", "mux", "replace", "cleanup"}
         => done[r] = <<"alloc", "frames", "video">>
    /\ pc[r] = "returned"
         => /\ done[r] = <<"alloc", "frames", "video", "audio">>
            /\ fs[temp_video[r]] = MuxOf(r)

C4_Witness ==
  \E r \in Renders : pc[r] = "returned" /\ fs[temp_video[r]].kind = "muxed"
                     /\ Len(fs[temp_video[r]].frames) = TotalFrames(req[r].duration)

\* C6: in every interleaving, a step of one request changes only paths whose
\* file (before and after) is that request's own, the mux reads only the
\* request's own files, and the outcome is the one the request has alone: the
\* muxed file of its own theme, tone and duration at its own path if no step of
\* it raised, a failure with its output path removed otherwise.
C6_Independent ==
  [][\A r \in Renders :
       /\ pc'[r] # pc[r]
            => \A p \in Paths :
                 fs'[p] # fs[p] => (fs[p].owner \in {0, r} /\ fs'[p].owner \in {0, r})
       /\ pc[r] = "mux" => (Mine(r, temp_video[r]) /\ Mine(r, temp_audio[r])
                            /\ Mine(r, temp_final[r]))
       /\ (pc'[r] = "returned" /\ pc[r] # "returned")
            => (fault[r] = "none" /\ fs'[temp_video[r]] = OwnResult(r))
       /\ (pc[r] = "returned" /\ Exists(fs, temp_video[r]))
            => (pc'[r] = "returned" /\ fs'[temp_video[r]] = fs[temp_video[r]])
       /\ (pc'[r] = "failed" /\ pc[r] # "failed")
            => (fault[r] # "none" /\ ~Exists(fs', temp_video[r]))
       /\ pc'[r] = pc[r]
            => (temp_video'[r] = temp_video[r] /\ temp_audio'[r] = temp_audio[r]
                /\ temp_final'[r] = temp_final[r])]_vars

C6_Witness ==
  \E r1, r2 \in Renders :
    /\ r1 # r2
    /\ pc[r1] = "mux" /\ pc[r2] = "audio_alloc"
    /\ fs[temp_video[r1]].kind = "video" /\ fs[temp_video[r2]].kind = "video"

\* C10: after a successful return, of the files the request created (output
\* .mp4, intermediate .wav, mux output .mp4) exactly one is left, the one at
\* the returned path: the mux output was renamed onto it and the .wav deleted.
C10_OneFileRemains ==
  \A r \in Renders :
    pc[r] = "returned"
      => /\ {p \in Paths : fs[p].owner = r} = {temp_video[r]}
         /\ \A p \in Paths : fs[p].owner = r => fs[p].kind = "muxed"

C10_Witness ==
  \E r \in Renders : /\ pc[r] = "returned"
                     /\ Cardinality({p \in Paths : fs[p].owner = r}) = 1
                     /\ temp_audio[r] = 0 /\ temp_final[r] = 0

(***************************************************************************)
(* Properties of the sequential walk (SpecFrames).                         *)
(***************************************************************************)
AfterLoop == sq.pc \in {"write", "done"}

\* C5: for a duration D > 0 and any theme, generate_visual_frames returns
\* exactly D * 30 frames, the i-th being the selected synthesizer's frame for
\* index i of D * 30 on the theme's palette; the list is complete before the
\* writer writes anything, and the writer writes the frames in list order.
C5_FrameSequence ==
  /\ (AfterLoop /\ sq.duration > 0)
       => /\ Len(sq.frames) = sq.duration * 30
          /\ \A i \in 1 .. Len(sq.frames) :
               sq.frames[i] = [synth |-> SynthFor(sq.theme), frame_num |-> i - 1,
                               total_frames |-> sq.duration * 30,
                               colors |-> PaletteKey(sq.theme)]
  /\ (sq.pc \notin {"write", "done"}) => sq.written = <<>>
  /\ Len(sq.written) <= Len(sq.frames)
  /\ \A j \in 1 .. Len(sq.written) : sq.written[j] = cvtColor(sq.frames[j])
  /\ sq.pc = "done" => Len(sq.written) = Len(sq.frames)

C5_Witness ==
  /\ sq.pc = "done" /\ sq.duration = 2 /\ sq.theme = "ocean_waves"
  /\ Len(sq.written) = 60
  /\ sq.written[60].bgr_of.frame_num = 59

\* C7: the palette used is the theme's own if the name is registered and the
\* chakra palette otherwise; the synthesizer is the theme's own for chakra,
\* sacred_geometry, ocean_waves and mandala_flow and the gradient one for any
\* other name; the frequency is the catalog value of a registered tone and 432
\* otherwise, so '432hz' gives 432.
C7_Catalog ==
  [n \in RegisteredTones |->
     CASE n = "396hz" -> 396 [] n = "417hz" -> 417 [] n = "528hz" -> 528
       [] n = "639hz" -> 639 [] n = "741hz" -> 741 [] n = "852hz" -> 852
       [] n = "963hz" -> 963]

C7_RegistryTotal ==
  /\ sq.pc # "idle"
       => color_themes[sq.colors] =
            (IF sq.theme \in {"chakra", "ocean_waves", "forest_meditation",
                              "sacred_geometry", "crystal_healing", "sunset_peace",
                              "northern_lights", "mandala_flow"}
             THEN color_themes[sq.theme] ELSE color_themes["chakra"])
  /\ \A i \in 1 .. Len(sq.frames) :
       sq.frames[i].synth =
         (CASE sq.theme = "chakra" -> "create_chakra_frame"
            [] sq.theme = "sacred_geometry" -> "create_sacred_geometry_frame"
            [] sq.theme = "ocean_waves" -> "create_wave_frame"
            [] sq.theme = "mandala_flow" -> "create_mandala_frame"
            [] OTHER -> "create_gradient_frame")
  /\ sq.pc = "done"
       => sq.frequency = (IF sq.frequency_name \in RegisteredTones
                          THEN C7_Catalog[sq.frequency_name] ELSE 432)
  /\ (sq.pc = "done" /\ sq.frequency_name = "432hz") => sq.frequency = 432

C7_Witness ==
  /\ sq.pc = "done" /\ sq.theme = "aurora" /\ sq.frequency_name = "432hz"
  /\ sq.frequency = 432 /\ sq.colors = "chakra"
  /\ Len(sq.frames) > 0 /\ sq.frames[1].synth = "create_gradient_frame"

\* C9: for an integer duration D >= 1 and any theme the loop never raises:
\* total_frames // 10 is non-zero, total_frames // len(palette) is non-zero
\* whenever the chakra synthesizer is the one called, and progress is reported
\* at exactly the ten frame indices that are multiples of total_frames // 10.
C9_NoArithmeticFault ==
  /\ sq.pc # "raised"
  /\ (sq.pc # "idle" /\ sq.duration >= 1)
       => /\ sq.total_frames \div 10 # 0
          /\ sq.theme = "chakra" => sq.total_frames \div Len(color_themes[sq.colors]) # 0
  /\ (AfterLoop /\ sq.duration >= 1)
       => sq.progress = [j \in 1 .. 10 |-> (j - 1) * (sq.total_frames \div 10)]

C9_Witness ==
  /\ sq.pc = "done" /\ sq.theme = "chakra" /\ sq.duration = 1
  /\ sq.progress = <<0, 3, 6, 9, 12, 15, 18, 21, 24, 27>>

(***************************************************************************)
(* Property of create_gradient_frame (SpecGradient).                       *)
(***************************************************************************)
\* C8: the gradient synthesizer interpolates twice: the base index is
\* floor(f/T * L) modulo L, and the colour of a row is determined by the
\* temporal fraction (f/T * L) mod 1 as well as by the row fraction, so two
\* frames of one palette segment taken at different temporal fractions are
\* not the same picture; at frame 0, row 0 is the first palette colour.
C8_DoubleInterpolation ==
  gr.pc = "returned"
    => LET colors == PaletteFor(gr.theme)
           f == gr.frame_num
           T == gr.total_frames
       IN /\ color_index(f, T, colors) = ((f * Len(colors)) \div T) % Len(colors)
          /\ f = 0 => gr.frame[0] = colors[1]
          /\ \A g \in range(T) :
               (/\ color_index(g, T, colors) = color_index(f, T, colors)
                /\ blend_progress(g, T, colors) # blend_progress(f, T, colors))
                 => create_gradient_frame(g, T, colors) # gr.frame

====
